---- MODULE Spec2Model ----
(***************************************************************************)
(* A model of lapsify's batch engine (src/src/main.rs): argument           *)
(* validation in main, process_images_to_images and                       *)
(* process_images_to_video with their parallel per-frame tasks, the        *)
(* progress counter, the error scan over the collected results and the    *)
(* external encoder call.                                                  *)
(*                                                                         *)
(* Numbers: the control values of the command line are decimals with one   *)
(* fractional digit, written in tenths (1.5 EV is Tenths(15)), and so are  *)
(* the ranges of main.rs:443-446.  An f32 is its sign, exponent and 24-bit *)
(* mantissa, and every operation rounds as IEEE 754 binary32 does; NaN,    *)
(* which str::parse::<f32> accepts ("NaN") and 0.0/0.0 yields, compares    *)
(* false with everything.                                                  *)
(*                                                                         *)
(* Files: image_files is the sorted list of the image files of the input   *)
(* directory, each a stem and an extension; a frame's original index is    *)
(* its 0-based position in that list.                                      *)
(***************************************************************************)
EXTENDS Integers, Sequences, FiniteSets, TLC

\* Option<T>: None is the empty tuple, Some(x) the one-element tuple
None == <<>>
Some(x) == <<x>>
IsSome(o) == o # None
Get(o) == o[1]

(***************************************************************************)
(* f32 arithmetic (IEEE 754 binary32, round to nearest, ties to even).     *)
(* A finite f32 is [k |-> "fin", s, e, m]: the value (-1)^s * m * 2^e with *)
(* m = 0 (zero, e = 0, s = 0) or 2^23 <= m < 2^24.  The sign of zero is    *)
(* dropped: no operation of main.rs tells -0.0 from 0.0.  Exponents are    *)
(* not limited: the magnitudes main.rs computes from values in the         *)
(* declared ranges stay far inside f32's normal range.                     *)
(***************************************************************************)
MantBits == 24
\* extra low bits carried through a sum before it is rounded
GuardBits == 6

NaN == [k |-> "nan", s |-> 0, e |-> 0, m |-> 0]
Inf(s) == [k |-> "inf", s |-> s, e |-> 0, m |-> 0]
Zero == [k |-> "fin", s |-> 0, e |-> 0, m |-> 0]
Fin(s, e, m) == [k |-> "fin", s |-> s, e |-> e, m |-> m]
IsNaN(x) == x.k = "nan"
IsFinite(x) == x.k = "fin"
IsZero(x) == x.k = "fin" /\ x.m = 0

Abs(k) == IF k < 0 THEN -k ELSE k
Min(a, b) == IF a < b THEN a ELSE b

\* the number of low bits to drop from M to leave MantBits bits, found in
\* steps of step, step/2, ..., 1 bits
RECURSIVE DropBy(_, _)
DropBy(M, step) ==
    IF step = 0 THEN 0
    ELSE IF M >= 2^(MantBits + step - 1)
    THEN step + DropBy(M \div 2^step, step \div 2)
    ELSE DropBy(M, step \div 2)

Drop(M) == DropBy(M, 4)

\* the number of bits to shift M > 0 left to fill MantBits bits, found in
\* steps of step, step/2, ..., 1 bits
RECURSIVE LiftBy(_, _)
LiftBy(M, step) ==
    IF step = 0 THEN 0
    ELSE IF M < 2^(MantBits - step)
    THEN step + LiftBy(M * 2^step, step \div 2)
    ELSE LiftBy(M, step \div 2)

Lift(M) == LiftBy(M, 16)

\* the f32 nearest to (-1)^s * M * 2^E, ties to even; M < 2^31
Round(s, M, E) ==
    IF M = 0 THEN Zero
    ELSE IF M < 2^(MantBits - 1) THEN Fin(s, E - Lift(M), M * 2^Lift(M))
    ELSE LET c == Drop(M)
             q == M \div 2^c
             r == M % 2^c
             up == c > 0 /\ (2 * r > 2^c \/ (2 * r = 2^c /\ q % 2 = 1))
             q1 == IF up THEN q + 1 ELSE q
         IN  IF q1 = 2^MantBits THEN Fin(s, E + c + 1, 2^(MantBits - 1))
             ELSE Fin(s, E + c, q1)

\* M with its lowest bit set when bits were lost below it
Jam(M, lost) == IF lost /\ M % 2 = 0 THEN M + 1 ELSE M

\* M shifted right by d bits, a lost 1 bit kept in the lowest bit
ShiftRightJam(M, d) ==
    IF d > 30 THEN (IF M # 0 THEN 1 ELSE 0)
    ELSE Jam(M \div 2^d, M % 2^d # 0)

\* `k as f32` for an integer k
F(k) == Round(IF k < 0 THEN 1 ELSE 0, Abs(k), 0)

\* |a| < |b| for finite a, b
MagLt(a, b) ==
    IF b.m = 0 THEN FALSE
    ELSE IF a.m = 0 THEN TRUE
    ELSE a.e < b.e \/ (a.e = b.e /\ a.m < b.m)

\* -1, 0, 1 as a < b, a = b, a > b; neither of them NaN
Cmp(a, b) ==
    LET sa == IF IsZero(a) THEN 0 ELSE IF a.s = 1 THEN -1 ELSE 1
        sb == IF IsZero(b) THEN 0 ELSE IF b.s = 1 THEN -1 ELSE 1
        \* |a| against |b|, of equal sign
        mag == IF a.k = "inf" /\ b.k = "inf" THEN 0
               ELSE IF a.k = "inf" THEN 1
               ELSE IF b.k = "inf" THEN -1
               ELSE IF MagLt(a, b) THEN -1
               ELSE IF MagLt(b, a) THEN 1
               ELSE 0
    IN  IF sa # sb THEN (IF sa < sb THEN -1 ELSE 1)
        ELSE sa * mag

FEq(a, b) == ~IsNaN(a) /\ ~IsNaN(b) /\ Cmp(a, b) = 0
Lt(a, b) == ~IsNaN(a) /\ ~IsNaN(b) /\ Cmp(a, b) < 0
Gt(a, b) == Lt(b, a)
Le(a, b) == ~IsNaN(a) /\ ~IsNaN(b) /\ Cmp(a, b) <= 0

FNeg(a) == IF IsNaN(a) \/ IsZero(a) THEN a ELSE [a EXCEPT !.s = 1 - a.s]
FAbs(a) == IF IsNaN(a) THEN a ELSE [a EXCEPT !.s = 0]

\* a + b for finite non-zero a, b with |a| >= |b|
AddOrdered(a, b) ==
    Round(a.s,
          IF a.s = b.s
          THEN a.m * 2^GuardBits + ShiftRightJam(b.m * 2^GuardBits, a.e - b.e)
          ELSE a.m * 2^GuardBits - ShiftRightJam(b.m * 2^GuardBits, a.e - b.e),
          a.e - GuardBits)

FAdd(a, b) ==
    IF IsNaN(a) \/ IsNaN(b) THEN NaN
    ELSE IF a.k = "inf" /\ b.k = "inf" THEN (IF a.s = b.s THEN a ELSE NaN)
    ELSE IF a.k = "inf" THEN a
    ELSE IF b.k = "inf" THEN b
    ELSE IF IsZero(a) THEN b
    ELSE IF IsZero(b) THEN a
    ELSE AddOrdered(IF MagLt(a, b) THEN b ELSE a, IF MagLt(a, b) THEN a ELSE b)

FSub(a, b) == FAdd(a, FNeg(b))

\* the 48-bit product x * y of two mantissas, in 12-bit halves:
\* <<high 24 bits, low 24 bits>>
Product(x, y) ==
    LET h == 2^(MantBits \div 2)
        mid == (x \div h) * (y % h) + (x % h) * (y \div h)
        L == (x % h) * (y % h) + (mid % h) * h
    IN  <<(x \div h) * (y \div h) + (mid \div h) + (L \div 2^MantBits), L % 2^MantBits>>

\* the high bits of the product p with GuardBits guard bits, jammed
Guarded(p) ==
    Jam(p[1] * 2^GuardBits + (p[2] \div 2^(MantBits - GuardBits)),
        p[2] % 2^(MantBits - GuardBits) # 0)

\* a * b
FMul(a, b) ==
    LET s == IF a.s = b.s THEN 0 ELSE 1
    IN  IF IsNaN(a) \/ IsNaN(b) THEN NaN
        ELSE IF a.k = "inf" \/ b.k = "inf"
        THEN (IF IsZero(a) \/ IsZero(b) THEN NaN ELSE Inf(s))
        ELSE IF IsZero(a) \/ IsZero(b) THEN Zero
        ELSE Round(s, Guarded(Product(a.m, b.m)), a.e + b.e + MantBits - GuardBits)

\* the quotient bits of rem / den after `bits` more bits of long division,
\* taken 31 - MantBits bits at a time (rem < den < 2^MantBits):
\* <<quotient, remainder>>
RECURSIVE LongDiv(_, _, _, _)
LongDiv(q, rem, den, bits) ==
    IF bits = 0 THEN <<q, rem>>
    ELSE LET k == Min(bits, 31 - MantBits)
         IN  LongDiv(q * 2^k + (rem * 2^k) \div den, (rem * 2^k) % den, den, bits - k)

FDiv(a, b) ==
    LET s == IF a.s = b.s THEN 0 ELSE 1
        bits == MantBits + 2
        quotient(d) == Jam(d[1], d[2] # 0)
    IN  IF IsNaN(a) \/ IsNaN(b) THEN NaN
        ELSE IF a.k = "inf" THEN (IF b.k = "inf" THEN NaN ELSE Inf(s))
        ELSE IF b.k = "inf" THEN Zero
        ELSE IF IsZero(b) THEN (IF IsZero(a) THEN NaN ELSE Inf(s))
        ELSE IF IsZero(a) THEN Zero
        ELSE Round(s, quotient(LongDiv(a.m \div b.m, a.m % b.m, b.m, bits)),
                   a.e - b.e - bits)

\* f32::powi for an exponent n >= 0, by squaring: r is multiplied by the
\* running square a for every 1 bit of n
RECURSIVE powi_loop(_, _, _)
powi_loop(r, a, n) ==
    IF n = 0 THEN r
    ELSE powi_loop(IF n % 2 = 1 THEN FMul(r, a) ELSE r, FMul(a, a), n \div 2)

powi(a, n) == powi_loop(F(1), a, n)

\* str::parse::<f32> of a decimal with one fractional digit, k tenths: the
\* f32 nearest to k/10
Tenths(k) == FDiv(F(k), F(10))

\* 2^k as an f32
Pow2(k) == Fin(0, k - (MantBits - 1), 2^(MantBits - 1))

\* a != b
FNe(a, b) == ~FEq(a, b)

\* f32::clamp: NaN stays NaN
clamp(v, min, max) == IF Lt(v, min) THEN min ELSE IF Gt(v, max) THEN max ELSE v

\* x is finite and has no fractional part
IsWhole(x) == IsFinite(x) /\ (x.m = 0 \/ x.e >= 0 \/ (-x.e < MantBits /\ x.m % 2^(-x.e) = 0))

\* u32::MAX.  A u32 from 2^31 up is held as its 32-bit pattern read as a
\* signed integer, so that + wraps as the unchecked u32 + does.
U32Max == -1

\* `x as u32`: truncates toward zero and saturates; NaN and negatives give 0,
\* 2^32 and above and +inf give u32::MAX
AsU32(x) ==
    IF IsNaN(x) \/ x.s = 1 \/ IsZero(x) THEN 0
    ELSE IF x.k = "inf" \/ x.e > 32 - MantBits THEN U32Max
    ELSE IF x.e = 32 - MantBits THEN (x.m - 2^MantBits) * 2^x.e
    ELSE IF x.e >= 0 THEN x.m * 2^x.e
    ELSE IF -x.e >= MantBits THEN 0
    ELSE x.m \div 2^(-x.e)

\* `k as f32` for a u32 k
FU32(k) ==
    IF k >= 0 THEN F(k)
    ELSE Round(0, Jam(2^30 + (k \div 2) + 2^30, k % 2 # 0), 1)

(***************************************************************************)
(* Bounds of the model.                                                    *)
(***************************************************************************)
\* at most MaxFiles image files in the input directory, under every
\* combination of arguments
MaxFiles == 3
\* the input directory of the spec's end-to-end scenarios C and D holds
\* ScenarioFiles image files
ScenarioFiles == 5
\* the rayon pool runs at most MaxThreads frame closures at a time
MaxThreads == 2
\* at most MaxIoFaults file reads or writes of a run fail
MaxIoFaults == 1
\* at most MaxFaults of the numeric arguments differ from Nominal
MaxFaults == 1
\* the temp frame names of video runs of up to MaxVideoFrames retained frames
MaxVideoFrames == 11
\* a single call of interpolate_value is made with total_frames up to MaxFrames
MaxFrames == 5
\* on a timeline of up to MaxTimeline control values
MaxTimeline == 3

(***************************************************************************)
(* Program constants.                                                      *)
(***************************************************************************)
ExposureMin == -30
ExposureMax == 30
BrightnessMin == -1000
BrightnessMax == 1000
ContrastMin == 1
ContrastMax == 30
SaturationMin == 0
SaturationMax == 20
FpsMin == 1
FpsMax == 120
QualityMax == 51
CropParts == 4
PercentMax == 100
\* every input image of the model is ImgW x ImgH pixels
ImgW == 200
ImgH == 100

VideoFormats == {"mp4", "mov", "avi"}
ImageFormats == {"jpg", "jpeg", "png", "tiff", "tif"}

(***************************************************************************)
(* The inputs a run is started with.                                       *)
(***************************************************************************)
\* one field of a crop string: "50%" is Pct(50), "50" is Px(50), "abc" is BadField
Pct(k) == [ok |-> TRUE, n |-> k, pct |-> TRUE]
Px(k) == [ok |-> TRUE, n |-> k, pct |-> FALSE]
BadField == [ok |-> FALSE, n |-> 0, pct |-> FALSE]

ExposureArgs == {<<Tenths(0), Tenths(10)>>, <<Tenths(31)>>}
BrightnessArgs == {<<Tenths(0)>>, <<Tenths(-1001)>>}
ContrastArgs == {<<Tenths(10)>>, <<Tenths(0)>>}
SaturationArgs == {<<Tenths(10)>>, <<NaN>>, <<Tenths(21)>>}
FpsArgs == {0, 24, 121}
QualityArgs == {20, 52}
Nominal == [exposure |-> <<Tenths(0), Tenths(10)>>, brightness |-> <<Tenths(0)>>,
            contrast |-> <<Tenths(10)>>, saturation |-> <<Tenths(10)>>,
            fps |-> 24, quality |-> 20]
NumericArgs ==
    {a \in [exposure : ExposureArgs, brightness : BrightnessArgs,
            contrast : ContrastArgs, saturation : SaturationArgs,
            fps : FpsArgs, quality : QualityArgs] :
        Cardinality({k \in DOMAIN Nominal : a[k] # Nominal[k]}) <= MaxFaults}
FormatArgs == {"jpg", "PNG", "mp4", "gif"}
FrameArgs == {None} \cup {Some(k) : k \in 0..MaxFiles}
CropArgs == {None,
             Some(<<Pct(50), Pct(50), Px(0), Px(0)>>),
             Some(<<Pct(50), Pct(50), Px(0)>>),
             Some(<<BadField, Pct(50), Px(0), Px(0)>>)}
\* the extensions is_image_file takes for an image
ImageExtensions == {"jpg", "jpeg", "png", "tiff", "tif", "bmp", "webp", "raw", "cr2",
                    "nef", "arw"}

\* String::to_lowercase on the format strings and extensions of the model
to_lowercase(s) ==
    CASE s = "JPG" -> "jpg"
      [] s = "PNG" -> "png"
      [] s = "MP4" -> "mp4"
      [] OTHER -> s

is_image_file(path) == to_lowercase(path.ext) \in ImageExtensions

\* the extensions of is_image_file that name camera RAW files
RawExtensions == {"raw", "cr2", "nef", "arw"}

\* a directory of n frames IMG_0.JPG, IMG_1.jpg .. IMG_<n-1>.jpg and a text
\* file, in sorted order
Directory(n) ==
    [i \in 1..(n + 1) |-> IF i > n THEN [stem |-> n, ext |-> "txt"]
                          ELSE IF i = 1 THEN [stem |-> 0, ext |-> "JPG"]
                          ELSE [stem |-> i - 1, ext |-> "jpg"]]
\* a directory of n files of which the first two are IMG_0.jpg and IMG_0.png
PairedDirectory(n) ==
    [i \in 1..n |-> IF i = 1 THEN [stem |-> 0, ext |-> "jpg"]
                    ELSE [stem |-> i - 2, ext |-> IF i = 2 THEN "png" ELSE "jpg"]]
\* a directory of n files of which the second is the RAW file IMG_1.cr2
RawDirectory(n) ==
    [i \in 1..n |-> [stem |-> i - 1, ext |-> IF i = 2 THEN "cr2" ELSE "jpg"]]
\* read_dir, filter(is_image_file), sort
Listing(n) == SelectSeq(Directory(n), is_image_file)
RawListing(n) == SelectSeq(RawDirectory(n), is_image_file)
PairedListing(n) == SelectSeq(PairedDirectory(n), is_image_file)

\* "400x200" and a string parse_resolution rejects
ResolutionArgs == {None, Some([ok |-> TRUE, w |-> 400, h |-> 200]),
                   Some([ok |-> FALSE, w |-> 0, h |-> 0])}

VARIABLES
    adjustments,      \* ImageAdjustments: the four timelines and the crop string
    format,           \* --format
    fps,              \* --fps
    quality,          \* --quality
    resolution,       \* --resolution
    start_frame,      \* --start-frame (None or an index)
    end_frame,        \* --end-frame (None or an index)
    image_files,      \* the image files of the input directory, sorted
    leftover,         \* the names of the frame files <output>/temp_frames holds at the start
    corrupt,          \* the input files image::open has failed on
    io_faults,        \* the number of file reads and writes that have failed
    pc,               \* where main / process_images_to_* stands
    exit,             \* None while running, else the Result main returns
    output_dir,       \* TRUE when the output directory exists
    temp_dir,         \* TRUE when <output>/temp_frames exists
    temp_files,       \* the frame files in <output>/temp_frames
    out_files,        \* the processed images in the output directory
    video_file,       \* None, or Some([format, frames]): <output>/timelapse.<format> and the frames in it
    start_idx,        \* process_images_to_*: start_idx
    total_files,      \* process_images_to_*: filtered_files.len()
    final_resolution, \* process_images_to_video: final_resolution
    task,             \* the per-frame closures of the par_iter, by index i
    processed_count,  \* the AtomicUsize
    progress,         \* the progress lines printed, in print order
    opened,           \* input files image::open was called on
    adjusted,         \* the apply_adjustments calls made: [i, img], img as apply_adjustments gives it
    encoder,          \* "none", or what the ffmpeg call did (EncoderOutcomes)
    call,             \* None, or Some call of one function of main.rs: its name and arguments
    ret               \* None, or Some(what that call returned)

vars == <<adjustments, format, fps, quality, resolution, start_frame, end_frame,
          image_files, leftover, corrupt, io_faults, pc, exit, output_dir, temp_dir,
          temp_files, out_files, video_file, start_idx, total_files, final_resolution, task,
          processed_count, progress, opened, adjusted, encoder, call, ret>>

\* what a run is given: the command line, the input directory and what an
\* earlier run left in the output directory
args == <<adjustments, format, fps, quality, resolution, start_frame, end_frame,
          image_files, leftover>>

\* image_files.len()
input_count == Len(image_files)

(***************************************************************************)
(* Pure functions of main.rs.                                              *)
(***************************************************************************)
\* validate_value_array: TRUE for Ok(())
validate_value_array(values, min, max) ==
    ~ \E i \in 1..Len(values) : Lt(values[i], min) \/ Gt(values[i], max)

\* a usize is 64 bits wide (a 64-bit target), held as UsizeLimbs limbs of
\* 16 bits, the lowest first
Limb == 65536
UsizeLimbs == 4
usize(k) == <<k % Limb, k \div Limb>> \o [j \in 1..(UsizeLimbs - 2) |-> 0]
\* a usize below 2^31 as a number
usize_value(x) == x[1] + x[2] * Limb

\* x * m of a usize x and a small m: the limbs of the product, one more than
\* x has, the last one holding what does not fit the usize
RECURSIVE mul_limbs(_, _, _, _)
mul_limbs(x, m, j, carry) ==
    IF j > Len(x) THEN <<carry>>
    ELSE <<(x[j] * m + carry) % Limb>> \o mul_limbs(x, m, j + 1, (x[j] * m + carry) \div Limb)

\* x / d of a usize x and a small d, from the highest limb down
RECURSIVE div_limbs(_, _, _, _)
div_limbs(x, d, j, rem) ==
    IF j = 0 THEN <<>>
    ELSE div_limbs(x, d, j - 1, (rem * Limb + x[j]) % d) \o <<(rem * Limb + x[j]) \div d>>

\* x % d
RECURSIVE rem_limbs(_, _, _, _)
rem_limbs(x, d, j, rem) ==
    IF j = 0 THEN rem ELSE rem_limbs(x, d, j - 1, (rem * Limb + x[j]) % d)

\* the product cut to the width of a usize
wrapped(product) == SubSeq(product, 1, UsizeLimbs)

\* one pass of `result = result * (n - i) / (i + 1)` on the product
binomial_step(product, d, r) ==
    [value |-> div_limbs(wrapped(product), d, UsizeLimbs, 0),
     overflow |-> r.overflow \/ product[UsizeLimbs + 1] # 0,
     exact |-> r.exact /\ rem_limbs(wrapped(product), d, UsizeLimbs, 0) = 0]

\* the loop `for i in 0..k`: the result, whether a multiplication has
\* overflowed and whether every division was exact.  In a build with overflow
\* checks the overflow panics and ends the loop, in one without it wraps.
RECURSIVE binomial_loop(_, _, _, _, _)
binomial_loop(n, k, i, r, checks) ==
    IF i >= k \/ (r.overflow /\ checks) THEN r
    ELSE binomial_loop(n, k, i + 1,
                       binomial_step(mul_limbs(r.value, n - i, 1, 0), i + 1, r), checks)

binomial_run(n, k, checks) ==
    IF k > n THEN [value |-> usize(0), overflow |-> FALSE, exact |-> TRUE]
    ELSE IF k = 0 \/ k = n THEN [value |-> usize(1), overflow |-> FALSE, exact |-> TRUE]
    ELSE binomial_loop(n, k, 0, [value |-> usize(1), overflow |-> FALSE, exact |-> TRUE],
                       checks)

\* what the caller gets of a run: a panic, or the value returned
binomial_outcome(r, checks) ==
    [panic |-> r.overflow /\ checks,
     value |-> IF r.overflow /\ checks THEN <<>> ELSE r.value,
     exact |-> r.exact]

\* what a call can give, over the builds with and without overflow checks
binomial_outcomes(n, k) ==
    {binomial_outcome(binomial_run(n, k, checks), checks) : checks \in BOOLEAN}

\* the coefficient as a number, where it is below 2^31
binomial_coefficient(n, k) == usize_value(binomial_run(n, k, FALSE).value)

RECURSIVE bezier_loop_full_power(_, _, _, _)
\* the loop with (1 - t) raised to n in every term
bezier_loop_full_power(control_points, t, i, result) ==
    IF i > Len(control_points) THEN result
    ELSE LET n == Len(control_points) - 1
             k == i - 1
         IN  bezier_loop_full_power(control_points, t, i + 1,
                 FAdd(result,
                      FMul(FMul(FMul(F(binomial_coefficient(n, k)), control_points[i]),
                                powi(FSub(F(1), t), n)),
                           powi(t, k))))

RECURSIVE bezier_loop(_, _, _, _)
\* the loop of bezier_interpolate from control_points[i] on (i 1-based), result
\* being the sum so far
bezier_loop(control_points, t, i, result) ==
    IF i > Len(control_points) THEN result
    ELSE LET n == Len(control_points) - 1
             k == i - 1
         IN  bezier_loop(control_points, t, i + 1,
                 FAdd(result,
                      FMul(FMul(FMul(F(binomial_coefficient(n, k)), control_points[i]),
                                powi(FSub(F(1), t), n - k)),
                           powi(t, k))))

bezier_interpolate(control_points, t) ==
    IF Len(control_points) - 1 = 0 THEN control_points[1]
    ELSE bezier_loop(control_points, t, 1, F(0))

\* the interpolation with t taken over total_frames instead of total_frames - 1
interpolate_value_over_total(values, frame_index, total_frames) ==
    IF Len(values) = 1 THEN values[1]
    ELSE IF Len(values) = 2
    THEN FAdd(values[1], FMul(FSub(values[2], values[1]),
                              FDiv(F(frame_index), F(total_frames))))
    ELSE bezier_interpolate(values, FDiv(F(frame_index), F(total_frames)))

interpolate_value(values, frame_index, total_frames) ==
    IF Len(values) = 1 THEN values[1]
    ELSE IF Len(values) = 2
    THEN FAdd(values[1], FMul(FSub(values[2], values[1]),
                              FDiv(F(frame_index), F(total_frames - 1))))
    ELSE bezier_interpolate(values, FDiv(F(frame_index), F(total_frames - 1)))

get_values_at_frame(adj, frame_index, total_frames) ==
    <<interpolate_value(adj.exposure, frame_index, total_frames),
      interpolate_value(adj.brightness, frame_index, total_frames),
      interpolate_value(adj.contrast, frame_index, total_frames),
      interpolate_value(adj.saturation, frame_index, total_frames)>>

\* parse_crop_value: [ok, v]
parse_crop_value(field) ==
    IF ~field.ok THEN [ok |-> FALSE, v |-> 0]
    ELSE IF field.pct /\ (field.n < 0 \/ field.n > PercentMax) THEN [ok |-> FALSE, v |-> 0]
    ELSE [ok |-> TRUE, v |-> field.n]

\* parse_crop_string: [ok, width, height, x, y]
parse_crop_string(input) ==
    LET bad == [ok |-> FALSE, width |-> 0, height |-> 0, x |-> 0, y |-> 0]
    IN  IF Len(input) # CropParts THEN bad
        ELSE IF \E i \in 1..CropParts : ~parse_crop_value(input[i]).ok THEN bad
        ELSE [ok |-> TRUE,
              width |-> parse_crop_value(input[1]).v,
              height |-> parse_crop_value(input[2]).v,
              x |-> parse_crop_value(input[3]).v,
              y |-> parse_crop_value(input[4]).v]

\* the offset along one axis of length dim (main.rs:877-889, 691-701)
crop_offset(v, dim) ==
    IF v < 0 THEN FAdd(F(dim), FMul(FDiv(F(v), F(100)), F(dim))) ELSE F(v)

\* the extent with the percentage taken of 100 pixels
crop_extent_of_100(v, offset, dim) ==
    IF v <= 0 THEN FSub(F(dim), offset)
    ELSE IF v <= 100 /\ v > 0 THEN FMul(FDiv(F(v), F(100)), F(100))
    ELSE F(v)

\* the extent along one axis of length dim (main.rs:891-907, 703-717)
crop_extent(v, offset, dim) ==
    IF v <= 0 THEN FSub(F(dim), offset)
    ELSE IF v <= 100 /\ v > 0 THEN FMul(FDiv(F(v), F(100)), F(dim))
    ELSE F(v)

\* apply_adjustments, one axis of the crop rectangle from its offset:
\* <<start, end>> with end = (start + crop extent).min(dim)
crop_span(offset, extent, dim) ==
    <<AsU32(offset), Min(AsU32(offset) + AsU32(crop_extent(extent, offset, dim)), dim)>>

\* apply_adjustments, the crop rectangle: <<start_x, start_y, end_x, end_y>>
crop_rect(crop, width, height) ==
    IF ~IsSome(crop) THEN <<0, 0, width, height>>
    ELSE LET crop_params == parse_crop_string(Get(crop))
             rect(xs, ys) == <<xs[1], ys[1], xs[2], ys[2]>>
         IN  rect(crop_span(crop_offset(crop_params.x, width), crop_params.width, width),
                  crop_span(crop_offset(crop_params.y, height), crop_params.height,
                            height))

\* apply_adjustments on an image of img.width x img.height pixels: ok is FALSE
\* for Err; rect is the crop rectangle, width and height are new_width and
\* new_height.  With overflow the u32 subtraction end - start underflows: it
\* panics in a build with overflow checks and wraps to 2^32 + width (or
\* 2^32 + height) in one without.
apply_adjustments(img, adj, frame_index, total_frames) ==
    LET failed == IsSome(adj.crop) /\ ~parse_crop_string(Get(adj.crop)).ok
        cropped(rect) ==
            [ok |-> ~failed,
             rect |-> IF failed THEN <<0, 0, 0, 0>> ELSE rect,
             width |-> IF failed THEN 0 ELSE rect[3] - rect[1],
             height |-> IF failed THEN 0 ELSE rect[4] - rect[2],
             overflow |-> ~failed /\ (rect[3] < rect[1] \/ rect[4] < rect[2]),
             frame_index |-> frame_index,
             total_frames |-> total_frames,
             values |-> get_values_at_frame(adj, frame_index, total_frames)]
    IN  cropped(crop_rect(adj.crop, img.width, img.height))

\* 2.0_f32.powf(exposure) for a whole number of stops
powf2(exposure) ==
    IF IsWhole(exposure)
    THEN Pow2(IF exposure.s = 1 THEN -AsU32(FAbs(exposure)) ELSE AsU32(exposure))
    ELSE CHOOSE x \in {} : TRUE

\* (v.clamp(0.0, 1.0) * 255.0) as u8 with the factor 254.0
to_u8_254(v) == Min(AsU32(FMul(clamp(v, F(0), F(1)), F(254))), 255)

\* (v.clamp(0.0, 1.0) * 255.0) as u8
to_u8(v) == Min(AsU32(FMul(clamp(v, F(0), F(1)), F(255))), 255)

\* apply_adjustments, the body of the loop over the pixels up to the
\* saturation: <<rf, gf, bf>> of the pixel <<r, g, b>> under the values
\* <<exposure, brightness, contrast, saturation>>
adjusted_channels(pixel, values) ==
    LET exposure == values[1]
        brightness == values[2]
        contrast == values[3]
        saturation == values[4]
        exposed(v) == IF FNe(exposure, F(0)) THEN FMul(v, powf2(exposure)) ELSE v
        brightened(v) == IF FNe(brightness, F(0))
                         THEN FAdd(v, FDiv(brightness, F(100))) ELSE v
        contrasted(v, half) == IF FNe(contrast, F(1))
                               THEN FAdd(FMul(FSub(v, half), contrast), half) ELSE v
        luma(f) == FAdd(FAdd(FMul(FDiv(F(299), F(1000)), f[1]),
                             FMul(FDiv(F(587), F(1000)), f[2])),
                        FMul(FDiv(F(114), F(1000)), f[3]))
        saturated(v, gray) == IF FNe(saturation, F(1))
                              THEN FAdd(gray, FMul(FSub(v, gray), saturation)) ELSE v
        put(f, gray) == [c \in 1..3 |-> saturated(f[c], gray)]
        desaturate(f) == put(f, luma(f))
    IN  desaturate([c \in 1..3 |->
                      contrasted(brightened(exposed(FDiv(F(pixel[c]), F(255)))),
                                 FDiv(F(1), F(2)))])

\* "Clamp values and convert back to u8": <<new_r, new_g, new_b>>
to_u8s(f) == [c \in 1..3 |-> to_u8(f[c])]

\* apply_adjustments, the body of the loop over the pixels: the pixel put for
\* the pixel <<r, g, b>>
adjust_pixel(pixel, values) == to_u8s(adjusted_channels(pixel, values))

\* save_image: TRUE for Ok(())
save_image(fmt) == to_lowercase(fmt) \in ImageFormats

\* generate_output_filename: format!("{}_processed.{}", stem, output_format)
generate_output_filename(input_path, output_format) ==
    [stem |-> input_path.stem, suffix |-> "_processed", ext |-> output_format]

is_video_output(fmt) == fmt \in VideoFormats

RECURSIVE ilog10(_)
ilog10(k) == IF k < 10 THEN 0 ELSE 1 + ilog10(k \div 10)

\* the padding without the + 1 of the digit count
calculate_frame_padding_log(total) == IF total = 0 THEN 1 ELSE ilog10(total)

calculate_frame_padding(total) == IF total = 0 THEN 1 ELSE ilog10(total) + 1

\* `if k % 2 != 0 { k + 1 } else { k }` on a u32, the + wrapping
even_up(k) == IF k % 2 # 0 THEN k + 1 ELSE k

\* the + 1 of even_up overflows the u32
overflows(k) == k = U32Max

\* both dimensions made even
evened(size) == <<even_up(size[1]), even_up(size[2])>>

\* validate_resolution_proportion: output_width and output_height before
\* they are made even
planned_size(target, original_width, original_height) ==
    <<AsU32(FMul(FU32(target.h), FDiv(F(original_width), F(original_height)))),
      target.h>>

\* validate_resolution_proportion, the arithmetic on the first frame's size
planned_resolution(target, original_width, original_height) ==
    evened(planned_size(target, original_width, original_height))

\* process_images_to_video: the size the planner takes the cropped frame to have
planned_crop_size(crop_params, original_width, original_height) ==
    <<AsU32(crop_extent(crop_params.width,
                        crop_offset(crop_params.x, original_width), original_width)),
      AsU32(crop_extent(crop_params.height,
                        crop_offset(crop_params.y, original_height), original_height))>>

\* process_images_to_video: final_width and final_height before they are
\* made even
fitted_size(crop_params, calculated, original_width, original_height) ==
    LET target_width == calculated[1]
        target_height == calculated[2]
        fitted(cropped_ratio, wider) ==
            <<IF wider THEN AsU32(FMul(FU32(target_height), cropped_ratio))
              ELSE target_width,
              IF wider THEN target_height
              ELSE AsU32(FDiv(FU32(target_width), cropped_ratio))>>
        fit(cropped_ratio) ==
            fitted(cropped_ratio,
                   Gt(cropped_ratio, FDiv(FU32(target_width), FU32(target_height))))
        ratio(size) == FDiv(FU32(size[1]), FU32(size[2]))
    IN  fit(ratio(planned_crop_size(crop_params, original_width, original_height)))

\* process_images_to_video: final_resolution when a crop and a target are given
cropped_resolution(crop_params, calculated, original_width, original_height) ==
    evened(fitted_size(crop_params, calculated, original_width, original_height))

\* validate_resolution_proportion: ratio_difference > tolerance, the branch
\* that prints the warning
aspect_warning(target, original_width, original_height) ==
    Gt(FAbs(FSub(FDiv(F(original_width), F(original_height)),
                 FDiv(FU32(target.w), FU32(target.h)))),
       FDiv(F(5), F(100)))

\* process_images_to_video from validate_resolution_proportion to
\* final_resolution, for a target resolution and an optional crop that both
\* parse: the outcomes [panic, warning, resolution].  An `+ 1` that overflows
\* panics in a build with overflow checks and wraps to 0 in one without; the
\* warning is printed after the `+= 1` of validate_resolution_proportion.
plan_outcomes(target, crop, original_width, original_height) ==
    LET planned == planned_size(target, original_width, original_height)
        calculated == evened(planned)
        early == overflows(planned[1]) \/ overflows(planned[2])
        warning == aspect_warning(target, original_width, original_height)
        outcomes(fitted) ==
            (IF early \/ overflows(fitted[1]) \/ overflows(fitted[2])
             THEN {[panic |-> TRUE, warning |-> ~early /\ warning, resolution |-> None]}
             ELSE {})
            \cup {[panic |-> FALSE, warning |-> warning,
                   resolution |-> Some(evened(fitted))]}
    IN  outcomes(IF IsSome(crop)
                 THEN fitted_size(parse_crop_string(Get(crop)), calculated,
                                  original_width, original_height)
                 ELSE planned)

(***************************************************************************)
(* Results.                                                                *)
(***************************************************************************)
Ok == [ok |-> TRUE, msg |-> "", frames |-> {}]
\* an error main returns; frames are the frame closures whose error it carries
Err(msg, frames) == [ok |-> FALSE, msg |-> msg, frames |-> frames]

InFlight == {"saved", "counted"}
Finished == {"ok", "err_open", "err_adjust", "err_save"}
Failed == Finished \ {"ok"}

\* image::open on input file f: it fails on a file it failed on before, succeeds
\* on one it read before, and either reads or fails on a file not yet opened
\* image::open takes the format from the extension of the path and has a
\* decoder for none of the RAW extensions
standard_decodes(f) == to_lowercase(image_files[f + 1].ext) \notin RawExtensions

open_may_fail(f) ==
    IF ~standard_decodes(f) THEN TRUE
    ELSE IF f \in opened THEN f \in corrupt ELSE io_faults < MaxIoFaults
open_may_succeed(f) == standard_decodes(f) /\ f \notin corrupt

\* every combination of arguments over a directory of at most MaxFiles files
\* (--resolution is read in video mode only)
AnyArgs ==
    /\ \E a \in NumericArgs, c \in CropArgs :
          /\ adjustments = [exposure |-> a.exposure, brightness |-> a.brightness,
                            contrast |-> a.contrast, saturation |-> a.saturation,
                            crop |-> c]
          /\ fps = a.fps
          /\ quality = a.quality
    /\ format \in FormatArgs
    /\ resolution \in IF format \in VideoFormats THEN ResolutionArgs ELSE {None}
    /\ start_frame \in FrameArgs
    /\ end_frame \in FrameArgs
    /\ image_files \in {Listing(n) : n \in 0..MaxFiles}

\* the end-to-end scenarios: ScenarioFiles files, nominal adjustments, the
\* whole sequence or the frames from or up to its middle frame
ScenarioArgs ==
    /\ adjustments = [exposure |-> Nominal.exposure, brightness |-> Nominal.brightness,
                      contrast |-> Nominal.contrast, saturation |-> Nominal.saturation,
                      crop |-> None]
    /\ fps = Nominal.fps
    /\ quality = Nominal.quality
    /\ format \in {"jpg", "mp4"}
    /\ resolution = None
    /\ start_frame \in {None, Some(ScenarioFiles \div 2)}
    /\ end_frame \in {None, Some(ScenarioFiles \div 2)}
    /\ image_files = Listing(ScenarioFiles)

\* a directory that holds one frame twice, as a JPEG and as a PNG, run in
\* image mode over all its files with the nominal adjustments
PairedArgs ==
    /\ adjustments = [exposure |-> Nominal.exposure, brightness |-> Nominal.brightness,
                      contrast |-> Nominal.contrast, saturation |-> Nominal.saturation,
                      crop |-> None]
    /\ fps = Nominal.fps
    /\ quality = Nominal.quality
    /\ format = "jpg"
    /\ resolution = None
    /\ start_frame = None
    /\ end_frame = None
    /\ image_files \in {PairedListing(n) : n \in 2..MaxFiles}

\* a directory with a RAW file among its frames, run in image mode over all
\* its files with the nominal adjustments
RawArgs ==
    /\ adjustments = [exposure |-> Nominal.exposure, brightness |-> Nominal.brightness,
                      contrast |-> Nominal.contrast, saturation |-> Nominal.saturation,
                      crop |-> None]
    /\ fps = Nominal.fps
    /\ quality = Nominal.quality
    /\ format = "jpg"
    /\ resolution = None
    /\ start_frame = None
    /\ end_frame = None
    /\ image_files \in {RawListing(n) : n \in 2..MaxFiles}

\* nothing of the run has happened yet
Fresh ==
    /\ corrupt = {}
    /\ io_faults = 0
    /\ pc = "main"
    /\ exit = None
    /\ output_dir = (leftover # {})
    /\ temp_dir = (leftover # {})
    /\ temp_files = {}
    /\ out_files = {}
    /\ video_file = None
    /\ start_idx = 0
    /\ total_files = 0
    /\ final_resolution = None
    /\ task = <<>>
    /\ processed_count = 0
    /\ progress = <<>>
    /\ opened = {}
    /\ adjusted = {}
    /\ encoder = "none"

\* main, "Validate parameters" and "Validate frame range if provided": the
\* message of the first check that fails, or "" when all pass
validate_parameters ==
    IF ~validate_value_array(adjustments.exposure, Tenths(ExposureMin), Tenths(ExposureMax))
    THEN "Exposure value is outside valid range"
    ELSE IF ~validate_value_array(adjustments.brightness, Tenths(BrightnessMin), Tenths(BrightnessMax))
    THEN "Brightness value is outside valid range"
    ELSE IF ~validate_value_array(adjustments.contrast, Tenths(ContrastMin), Tenths(ContrastMax))
    THEN "Contrast value is outside valid range"
    ELSE IF ~validate_value_array(adjustments.saturation, Tenths(SaturationMin), Tenths(SaturationMax))
    THEN "Saturation value is outside valid range"
    ELSE IF fps < FpsMin \/ fps > FpsMax
    THEN "FPS must be between 1 and 120"
    ELSE IF quality > QualityMax
    THEN "Quality (CRF) must be between 0 and 51"
    ELSE IF IsSome(start_frame) /\ IsSome(end_frame) /\ Get(start_frame) > Get(end_frame)
    THEN "Start frame must be less than or equal to end frame"
    ELSE ""

\* main from the validation of the arguments to the call of process_images_to_*
main_validate ==
    /\ pc = "main"
    /\ IF validate_parameters = ""
       THEN pc' = "create_dirs" /\ exit' = exit
       ELSE pc' = "done" /\ exit' = Some(Err(validate_parameters, {}))
    /\ UNCHANGED <<args, call, ret, corrupt, io_faults, output_dir, temp_dir, temp_files,
                   out_files, video_file, start_idx, total_files, final_resolution,
                   task, processed_count, progress, opened, adjusted, encoder>>

\* process_images_to_*: fs::create_dir_all of the output (and temp) directory
create_output_dirs ==
    /\ pc = "create_dirs"
    /\ output_dir' = TRUE
    /\ temp_dir' = (temp_dir \/ is_video_output(format))
    /\ pc' = "discover"
    /\ UNCHANGED <<args, call, ret, corrupt, io_faults, exit, temp_files, out_files, video_file,
                   start_idx, total_files, final_resolution, task, processed_count,
                   progress, opened, adjusted, encoder>>

unwrap_or(o, default) == IF IsSome(o) THEN Get(o) ELSE default

\* the frame-range check with its comparisons off by one
check_frame_range_inclusive(total_available_frames, s_idx, e_idx) ==
    IF total_available_frames = 0 THEN "No image files found in input directory"
    ELSE IF s_idx > total_available_frames THEN "Start frame is out of range"
    ELSE IF e_idx > total_available_frames THEN "End frame is out of range"
    ELSE ""

\* process_images_to_*: the message of the frame-range check that fails, or ""
check_frame_range(total_available_frames, s_idx, e_idx) ==
    IF total_available_frames = 0 THEN "No image files found in input directory"
    ELSE IF s_idx >= total_available_frames THEN "Start frame is out of range"
    ELSE IF e_idx >= total_available_frames THEN "End frame is out of range"
    ELSE ""

\* process_images_to_*: read_dir, sort, frame range filtering
discover_files ==
    /\ pc = "discover"
    /\ LET total_available_frames == input_count
           s_idx == unwrap_or(start_frame, 0)
           e_idx == unwrap_or(end_frame, total_available_frames - 1)
           msg == check_frame_range(total_available_frames, s_idx, e_idx)
       IN  IF msg # ""
           THEN /\ pc' = "done"
                /\ exit' = Some(Err(msg, {}))
                /\ UNCHANGED <<start_idx, total_files, task>>
           ELSE /\ pc' = IF is_video_output(format) THEN "plan" ELSE "parallel"
                /\ exit' = exit
                /\ start_idx' = s_idx
                /\ total_files' = e_idx - s_idx + 1
                /\ task' = [i \in 0..(e_idx - s_idx) |-> [pc |-> "pending", current |-> 0]]
    /\ UNCHANGED <<args, call, ret, corrupt, io_faults, output_dir, temp_dir, temp_files,
                   out_files, video_file, final_resolution, processed_count,
                   progress, opened, adjusted, encoder>>

\* the state of opened, corrupt and io_faults after image::open on file f
open_result(f, fails) ==
    /\ opened' = opened \cup {f}
    /\ corrupt' = IF fails THEN corrupt \cup {f} ELSE corrupt
    /\ io_faults' = IF fails /\ f \notin opened /\ standard_decodes(f)
                     THEN io_faults + 1 ELSE io_faults

\* process_images_to_video: validate_resolution_proportion and the final
\* resolution of a cropped run, both read from the first retained frame
plan_resolution ==
    /\ pc = "plan"
    /\ LET first == start_idx
           reads_first == IsSome(resolution) \/ IsSome(adjustments.crop)
           calculated == IF IsSome(resolution)
                         THEN Some(planned_resolution(Get(resolution), ImgW, ImgH))
                         ELSE None
       IN  \/ /\ reads_first
              /\ open_may_fail(first)
              /\ open_result(first, TRUE)
              /\ pc' = "done"
              /\ exit' = Some(Err("Failed to open first image", {}))
              /\ UNCHANGED final_resolution
           \/ /\ reads_first => open_may_succeed(first)
              /\ IF reads_first THEN open_result(first, FALSE)
                 ELSE UNCHANGED <<opened, corrupt, io_faults>>
              /\ IF IsSome(resolution) /\ ~Get(resolution).ok
                 THEN /\ pc' = "done"
                      /\ exit' = Some(Err("Invalid resolution format", {}))
                      /\ UNCHANGED final_resolution
                 ELSE IF IsSome(adjustments.crop)
                         /\ ~parse_crop_string(Get(adjustments.crop)).ok
                 THEN /\ pc' = "done"
                      /\ exit' = Some(Err("Invalid crop string", {}))
                      /\ UNCHANGED final_resolution
                 ELSE /\ pc' = "parallel"
                      /\ exit' = exit
                      /\ final_resolution' =
                            IF IsSome(adjustments.crop) /\ IsSome(calculated)
                            THEN Some(cropped_resolution(
                                        parse_crop_string(Get(adjustments.crop)),
                                        Get(calculated), ImgW, ImgH))
                            ELSE calculated
    /\ UNCHANGED <<args, call, ret, output_dir, temp_dir, temp_files, out_files, video_file,
                   start_idx, total_files, task, processed_count, progress,
                   adjusted, encoder>>

(***************************************************************************)
(* The closure of the par_iter, one per retained frame i, in its steps.    *)
(***************************************************************************)
Running == {i \in DOMAIN task : task[i].pc \in InFlight}

\* the i-th retained frame is the file at index start_idx + i of the sorted list
image_path(i) == start_idx + i

\* the index of the frame among the retained frames
local_frame_index(i) == i

\* "Calculate global frame index for proper interpolation"
global_frame_index(i) == start_idx + i

\* the total_frames the closure hands to apply_adjustments
total_available_frames == input_count

\* the decimal digits of k >= 0, the most significant first
RECURSIVE to_digits(_)
to_digits(k) == IF k < 10 THEN <<k>> ELSE Append(to_digits(k \div 10), k % 10)

\* digits left-padded with zeros to at least width digits
RECURSIVE zero_pad(_, _)
zero_pad(digits, width) ==
    IF Len(digits) >= width THEN digits ELSE zero_pad(<<0>> \o digits, width)

\* format!("frame_{:0width$}.jpg", i + 1, width = frame_padding)
temp_filename(i, frame_padding) ==
    [prefix |-> "frame_", digits |-> zero_pad(to_digits(i + 1), frame_padding),
     ext |-> "jpg"]

\* the closure of frame i up to its progress update: image::open,
\* apply_adjustments and save_image, each ending the closure when it fails.
\* The three calls read and write nothing another closure touches but the
\* files, so they are one step.
task_process(i) ==
    /\ pc = "parallel"
    /\ task[i].pc = "pending"
    /\ Cardinality(Running) < MaxThreads
    /\ LET f == image_path(i)
           video == is_video_output(format)
           supported == save_image(IF video THEN "jpg" ELSE format)
           name == IF video
                   THEN temp_filename(i, calculate_frame_padding(total_files))
                   ELSE generate_output_filename(image_files[f + 1], format)
           \* the closure from image::open on, img being what
           \* apply_adjustments returns
           closure(img) ==
              \/ /\ open_may_fail(f)
                 /\ open_result(f, TRUE)
                 /\ task' = [task EXCEPT ![i].pc = "err_open"]
                 /\ UNCHANGED <<adjusted, temp_files, out_files>>
              \/ /\ open_may_succeed(f)
                 /\ ~img.ok
                 /\ open_result(f, FALSE)
                 /\ adjusted' = adjusted \cup {[i |-> i, img |-> img]}
                 /\ task' = [task EXCEPT ![i].pc = "err_adjust"]
                 /\ UNCHANGED <<temp_files, out_files>>
              \/ /\ open_may_succeed(f)
                 /\ img.ok
                 /\ ~supported \/ io_faults < MaxIoFaults
                 /\ opened' = opened \cup {f}
                 /\ corrupt' = corrupt
                 /\ io_faults' = IF supported THEN io_faults + 1 ELSE io_faults
                 /\ adjusted' = adjusted \cup {[i |-> i, img |-> img]}
                 /\ task' = [task EXCEPT ![i].pc = "err_save"]
                 /\ UNCHANGED <<temp_files, out_files>>
              \/ /\ open_may_succeed(f)
                 /\ img.ok
                 /\ supported
                 /\ open_result(f, FALSE)
                 /\ adjusted' = adjusted \cup {[i |-> i, img |-> img]}
                 /\ task' = [task EXCEPT ![i].pc = "saved"]
                 /\ IF video
                    THEN /\ temp_files' = {g \in temp_files : g.name # name}
                                             \cup {[name |-> name, img |-> img]}
                         /\ UNCHANGED out_files
                    ELSE /\ out_files' = {g \in out_files : g.name # name}
                                           \cup {[name |-> name, img |-> img]}
                         /\ UNCHANGED temp_files
       IN  closure(apply_adjustments([width |-> ImgW, height |-> ImgH], adjustments,
                                     global_frame_index(i), total_available_frames))
    /\ UNCHANGED <<args, call, ret, pc, exit, output_dir, temp_dir, video_file, start_idx,
                   total_files, final_resolution, processed_count, progress, encoder>>

\* the progress update as a load whose store is lost
task_fetch_add_racy(i) ==
    /\ pc = "parallel"
    /\ task[i].pc = "saved"
    /\ processed_count' = IF Cardinality(Running) > 1 THEN processed_count
                          ELSE processed_count + 1
    /\ task' = [task EXCEPT ![i] = [pc |-> "counted", current |-> processed_count + 1]]
    /\ UNCHANGED <<args, call, ret, corrupt, io_faults, pc, exit, output_dir, temp_dir,
                   temp_files, out_files, video_file, start_idx, total_files,
                   final_resolution, progress, opened, adjusted, encoder>>

\* processed_count.fetch_add(1, Ordering::Relaxed) + 1
task_fetch_add(i) ==
    /\ pc = "parallel"
    /\ task[i].pc = "saved"
    /\ processed_count' = processed_count + 1
    /\ task' = [task EXCEPT ![i] = [pc |-> "counted", current |-> processed_count + 1]]
    /\ UNCHANGED <<args, call, ret, corrupt, io_faults, pc, exit, output_dir, temp_dir,
                   temp_files, out_files, video_file, start_idx, total_files,
                   final_resolution, progress, opened, adjusted, encoder>>

\* the progress line printed from a second read of the counter
task_print_reload(i) ==
    /\ pc = "parallel"
    /\ task[i].pc = "counted"
    /\ progress' = Append(progress, processed_count)
    /\ task' = [task EXCEPT ![i] = [pc |-> "ok", current |-> 0]]
    /\ UNCHANGED <<args, call, ret, corrupt, io_faults, pc, exit, output_dir, temp_dir,
                   temp_files, out_files, video_file, start_idx, total_files,
                   final_resolution, processed_count, opened, adjusted, encoder>>

\* println!("Processed {current}/{total_files}") and Ok(())
task_print(i) ==
    /\ pc = "parallel"
    /\ task[i].pc = "counted"
    /\ progress' = Append(progress, task[i].current)
    /\ task' = [task EXCEPT ![i] = [pc |-> "ok", current |-> 0]]
    /\ UNCHANGED <<args, call, ret, corrupt, io_faults, pc, exit, output_dir, temp_dir,
                   temp_files, out_files, video_file, start_idx, total_files,
                   final_resolution, processed_count, opened, adjusted, encoder>>

\* the message of a frame closure that ended in an error
error_message(state) ==
    IF state = "err_open" THEN "Failed to open image"
    ELSE IF state = "err_adjust" THEN "Failed to apply adjustments"
    ELSE "Failed to save image"

\* the scan of the results with every Err dropped
first_error_ignored(results) == None

\* "Check for any errors": the Err the scan of results returns, None without one
first_error(results) ==
    LET failed == {i \in DOMAIN results : results[i].pc \in Failed}
    IN  IF failed = {} THEN None
        ELSE LET i == CHOOSE j \in failed : \A k \in failed : j <= k
             IN  Some(Err(error_message(results[i].pc), {i}))

\* the scan of the results taken as soon as one closure has failed
check_errors_short_circuit ==
    /\ pc = "parallel"
    /\ \/ \A i \in DOMAIN task : task[i].pc \in Finished
       \/ \E i \in DOMAIN task : task[i].pc \in Failed
    /\ IF IsSome(first_error(task))
       THEN pc' = "done" /\ exit' = first_error(task)
       ELSE IF is_video_output(format)
       THEN pc' = "ffmpeg" /\ exit' = exit
       ELSE pc' = "done" /\ exit' = Some(Ok)
    /\ UNCHANGED <<args, call, ret, corrupt, io_faults, output_dir, temp_dir, temp_files,
                   out_files, video_file, start_idx, total_files, final_resolution,
                   task, processed_count, progress, opened, adjusted, encoder>>

\* collect() of the par_iter and the scan of the results
check_errors ==
    /\ pc = "parallel"
    /\ \A i \in DOMAIN task : task[i].pc \in Finished
    /\ IF IsSome(first_error(task))
       THEN pc' = "done" /\ exit' = first_error(task)
       ELSE IF is_video_output(format)
       THEN pc' = "ffmpeg" /\ exit' = exit
       ELSE pc' = "done" /\ exit' = Some(Ok)
    /\ UNCHANGED <<args, call, ret, corrupt, io_faults, output_dir, temp_dir, temp_files,
                   out_files, video_file, start_idx, total_files, final_resolution,
                   task, processed_count, progress, opened, adjusted, encoder>>

\* the names of the files in <output>/temp_frames: what an earlier run left
\* there and what this run has written, a frame written over a file of the
\* same name replacing it
temp_frames == IF temp_dir THEN leftover \cup {g.name : g \in temp_files} ELSE {}

\* the last number of the run of consecutive numbers from j on whose names
\* frame_%0<pad>d.jpg are in names
RECURSIVE last_frame(_, _, _)
last_frame(names, frame_padding, j) ==
    IF temp_filename(j, frame_padding) \in names
    THEN last_frame(names, frame_padding, j + 1) ELSE j

\* ffmpeg -i temp_frames/frame_%0<pad>d.jpg: the encoder reads the files of
\* consecutive numbers from frame 1 on and stops at the first number that has
\* no file
encoder_input(names, frame_padding) ==
    {temp_filename(j, frame_padding) : j \in 0..(last_frame(names, frame_padding, 0) - 1)}

\* what ffmpeg_cmd.output() can give: no process, a failing exit, a clean exit
EncoderOutcomes == {"spawn_failed", "exit_nonzero", "exit_success"}

\* the encoder call with the clean-up done before the exit status is read
run_ffmpeg_cleanup_first ==
    /\ pc = "ffmpeg"
    /\ \E outcome \in EncoderOutcomes :
          /\ encoder' = outcome
          /\ IF outcome = "spawn_failed"
             THEN /\ exit' = Some(Err("ffmpeg could not be started", {}))
                  /\ UNCHANGED <<temp_dir, temp_files, video_file>>
             ELSE IF outcome = "exit_nonzero"
             THEN /\ exit' = Some(Err("FFmpeg failed: stderr", {}))
                  /\ temp_dir' = FALSE
                  /\ temp_files' = {}
                  /\ UNCHANGED video_file
             ELSE /\ exit' = Some(Ok)
                  /\ video_file' = Some([format |-> format,
                                          frames |-> encoder_input(temp_frames,
                                                        calculate_frame_padding(total_files))])
                  /\ temp_dir' = FALSE
                  /\ temp_files' = {}
    /\ pc' = "done"
    /\ UNCHANGED <<args, call, ret, corrupt, io_faults, output_dir, out_files, start_idx,
                   total_files, final_resolution, task, processed_count, progress,
                   opened, adjusted>>

\* process_images_to_video from "Build ffmpeg command" to its return
run_ffmpeg ==
    /\ pc = "ffmpeg"
    /\ \E outcome \in EncoderOutcomes :
          /\ encoder' = outcome
          /\ IF outcome = "spawn_failed"
             THEN /\ exit' = Some(Err("ffmpeg could not be started", {}))
                  /\ UNCHANGED <<temp_dir, temp_files, video_file>>
             ELSE IF outcome = "exit_nonzero"
             THEN /\ exit' = Some(Err("FFmpeg failed: stderr", {}))
                  /\ UNCHANGED <<temp_dir, temp_files, video_file>>
             ELSE /\ exit' = Some(Ok)
                  /\ video_file' = Some([format |-> format,
                                          frames |-> encoder_input(temp_frames,
                                                        calculate_frame_padding(total_files))])
                  /\ temp_dir' = FALSE
                  /\ temp_files' = {}
    /\ pc' = "done"
    /\ UNCHANGED <<args, call, ret, corrupt, io_faults, output_dir, out_files, start_idx,
                   total_files, final_resolution, task, processed_count, progress,
                   opened, adjusted>>

\* the frames a video run of k frames leaves in temp_frames when its encoder
\* fails
left_frames(k) == {temp_filename(j, calculate_frame_padding(k)) : j \in 0..(k - 1)}

\* an earlier video run over the same output directory left at most
\* MaxLeftover frames
MaxLeftover == 3

\* a video run with the nominal adjustments over an output directory whose
\* temp_frames holds the frames of an earlier run
RerunArgs ==
    /\ adjustments = [exposure |-> Nominal.exposure, brightness |-> Nominal.brightness,
                      contrast |-> Nominal.contrast, saturation |-> Nominal.saturation,
                      crop |-> None]
    /\ fps = Nominal.fps
    /\ quality = Nominal.quality
    /\ format = "mp4"
    /\ resolution = None
    /\ start_frame = None
    /\ end_frame = None
    /\ image_files \in {Listing(n) : n \in 1..MaxFiles}
    /\ leftover \in {left_frames(k) : k \in 1..MaxLeftover}

Init ==
    /\ \/ (AnyArgs \/ ScenarioArgs \/ PairedArgs \/ RawArgs) /\ leftover = {}
       \/ RerunArgs
    /\ Fresh
    /\ call = None
    /\ ret = None

Next ==
    \/ main_validate
    \/ create_output_dirs
    \/ discover_files
    \/ plan_resolution
    \/ \E i \in DOMAIN task : task_process(i)
    \/ \E i \in DOMAIN task : task_fetch_add(i)
    \/ \E i \in DOMAIN task : task_print(i)
    \/ check_errors
    \/ run_ffmpeg

Spec == Init /\ [][Next]_vars

(***************************************************************************)
(* One call of one function of main.rs on arguments drawn from bounded     *)
(* sets, outside of any run.                                               *)
(***************************************************************************)
\* the variables of a run
run == <<args, corrupt, io_faults, pc, exit, output_dir, temp_dir, temp_files,
         out_files, video_file, start_idx, total_files, final_resolution, task,
         processed_count, progress, opened, adjusted, encoder>>

\* no run is under way: the nominal arguments over an empty directory
NoRun ==
    /\ adjustments = [exposure |-> Nominal.exposure, brightness |-> Nominal.brightness,
                      contrast |-> Nominal.contrast, saturation |-> Nominal.saturation,
                      crop |-> None]
    /\ fps = Nominal.fps
    /\ quality = Nominal.quality
    /\ format = "jpg"
    /\ resolution = None
    /\ start_frame = None
    /\ end_frame = None
    /\ image_files = <<>>
    /\ leftover = {}
    /\ Fresh

UnitInit ==
    /\ NoRun
    /\ call = None
    /\ ret = None

\* control values in tenths: the ends of the exposure range, zero, and values
\* no f32 holds exactly
ControlTenths == {-30, -9, 0, 1, 7, 30}
ControlValues == {Tenths(k) : k \in ControlTenths}
Timelines == UNION {[1..len -> ControlValues] : len \in 1..MaxTimeline}

\* interpolate_value(values, frame_index, total_frames)
call_interpolate_value ==
    /\ call = None
    /\ \E values \in Timelines, total_frames \in 1..MaxFrames :
          \E frame_index \in 0..(total_frames - 1) :
             /\ call' = Some([fn |-> "interpolate_value", values |-> values,
                              frame_index |-> frame_index,
                              total_frames |-> total_frames])
             /\ ret' = Some(interpolate_value(values, frame_index, total_frames))
    /\ UNCHANGED run

\* the temp frame names the closures of one video run of total_files retained
\* frames make up, the closures taken in any order: call holds the closures
\* that have run, ret the names in temp_frames
call_temp_filename ==
    /\ \E total \in 1..MaxVideoFrames :
          \E i \in 0..(total - 1) :
             LET frame_padding == calculate_frame_padding(total)
                 ran == IF call = None THEN {} ELSE Get(call).ran
                 names == IF call = None THEN {} ELSE Get(ret)
             IN  /\ \/ call = None
                    \/ /\ IsSome(call)
                       /\ Get(call).fn = "temp_filename"
                       /\ Get(call).total_files = total
                       /\ i \notin ran
                 /\ call' = Some([fn |-> "temp_filename", total_files |-> total,
                                  ran |-> ran \cup {i}])
                 /\ ret' = Some(names \cup {temp_filename(i, frame_padding)})
    /\ UNCHANGED run

\* the width and height fields, the x and y fields of the crop strings
ExtentFields == {Pct(0), Pct(50), Pct(100), Px(0), Px(50), Px(100), Px(150), Px(300)}
OffsetFields == {Px(0), Px(10), Pct(10), Px(-25), Px(250)}
UnitCrops ==
    {None, Some(<<BadField, Pct(50), Px(0), Px(0)>>)} \cup
    {Some(<<w, h, x, y>>) : w \in ExtentFields, h \in ExtentFields,
                            x \in OffsetFields, y \in OffsetFields}
ImageSizes == {<<200, 100>>, <<120, 160>>}
\* the pixels: every gray level and two colours
Pixels == {<<v, v, v>> : v \in 0..255} \cup {<<255, 0, 0>>, <<10, 200, 30>>}
\* constant timelines
UnitExposure == {Tenths(0), Tenths(10)}
UnitBrightness == {Tenths(0), Tenths(100)}
UnitContrast == {Tenths(10), Tenths(15)}
UnitSaturation == {Tenths(10), Tenths(5)}

\* apply_adjustments(img, adjustments, 0, 1), as update_current_image calls
\* it, and the pixel it puts for the pixel img.pixel
call_apply(img, adj) ==
    /\ call' = Some([fn |-> "apply_adjustments", img |-> img, adjustments |-> adj,
                     frame_index |-> 0, total_frames |-> 1])
    /\ ret' = Some([img |-> apply_adjustments(img, adj, 0, 1),
                    pixel |-> adjust_pixel(img.pixel, get_values_at_frame(adj, 0, 1))])

\* apply_adjustments under a crop string, the adjustments nominal
call_apply_adjustments_crop ==
    /\ call = None
    /\ \E crop \in UnitCrops, size \in ImageSizes :
          call_apply([width |-> size[1], height |-> size[2], pixel |-> <<128, 128, 128>>],
                     [exposure |-> <<Tenths(0)>>, brightness |-> <<Tenths(0)>>,
                      contrast |-> <<Tenths(10)>>, saturation |-> <<Tenths(10)>>,
                      crop |-> crop])
    /\ UNCHANGED run

\* apply_adjustments without a crop, on every pixel under the adjustments
call_apply_adjustments_pixel ==
    /\ call = None
    /\ \E pixel \in Pixels, e \in UnitExposure, b \in UnitBrightness,
          c \in UnitContrast, sat \in UnitSaturation :
          call_apply([width |-> ImgW, height |-> ImgH, pixel |-> pixel],
                     [exposure |-> <<e>>, brightness |-> <<b>>, contrast |-> <<c>>,
                      saturation |-> <<sat>>, crop |-> None])
    /\ UNCHANGED run

\* the first frames the planner reads, the targets and the crop strings
PlanSizes == {<<200, 100>>, <<120, 160>>, <<101, 75>>}
PlanTargets == {[ok |-> TRUE, w |-> 400, h |-> 200], [ok |-> TRUE, w |-> 416, h |-> 200],
                [ok |-> TRUE, w |-> 158, h |-> 200], [ok |-> TRUE, w |-> 1920, h |-> 1080],
                [ok |-> TRUE, w |-> 1281, h |-> 721]}
PlanCrops == {None,
              Some(<<Pct(50), Pct(50), Px(0), Px(0)>>),
              Some(<<Pct(50), Pct(25), Pct(10), Pct(10)>>),
              Some(<<Px(150), Px(300), Px(10), Px(10)>>),
              Some(<<Px(0), Px(0), Px(50), Px(100)>>),
              Some(<<Px(0), Px(0), Px(250), Px(0)>>),
              Some(<<Px(0), Px(0), Px(-25), Px(-25)>>)}

\* process_images_to_video, the planning of the output resolution on a first
\* frame of size[1] x size[2] pixels
call_plan_resolution ==
    /\ call = None
    /\ \E size \in PlanSizes, target \in PlanTargets, crop \in PlanCrops :
          /\ call' = Some([fn |-> "plan_resolution", width |-> size[1],
                           height |-> size[2], target |-> target, crop |-> crop])
          /\ \E outcome \in plan_outcomes(target, crop, size[1], size[2]) :
                ret' = Some(outcome)
    /\ UNCHANGED run

\* the longest timeline: a --exposure (or other) array of that many values
MaxControlPoints == 64

\* bezier_interpolate, the coefficient of control point k of a timeline of
\* n + 1 values, and binomial_coefficient past its last index
call_binomial_coefficient ==
    /\ call = None
    /\ \E n \in 0..(MaxControlPoints - 1) :
       \E k \in 0..(n + 1) :
          /\ call' = Some([fn |-> "binomial_coefficient", n |-> n, k |-> k])
          /\ \E outcome \in binomial_outcomes(n, k) : ret' = Some(outcome)
    /\ UNCHANGED run

UnitNext ==
    \/ call_plan_resolution
    \/ call_binomial_coefficient
    \/ call_interpolate_value
    \/ call_temp_filename
    \/ call_apply_adjustments_crop
    \/ call_apply_adjustments_pixel

UnitSpec == UnitInit /\ [][UnitNext]_vars

(***************************************************************************)
(* Properties.                                                             *)
(***************************************************************************)
\* the frame range the arguments ask for, from the arguments alone
RequestedStart == unwrap_or(start_frame, 0)
RequestedEnd == unwrap_or(end_frame, input_count - 1)
\* the parallel phase of the run has been entered
Dispatched == task # <<>>
AllFinished == Dispatched /\ \A i \in DOMAIN task : task[i].pc \in Finished
FailedTasks == {i \in DOMAIN task : task[i].pc \in Failed}
OkTasks == {i \in DOMAIN task : task[i].pc = "ok"}
\* nothing of the file system has been touched and no frame handled
NoDirectory == ~output_dir /\ ~temp_dir
NoFrameHandled == opened = {} /\ adjusted = {} /\ out_files = {} /\ temp_files = {}
Rejected == pc = "done" => ~Get(exit).ok

\* C1: over N discovered files and an accepted range [start, end] the run has
\* end-start+1 frame closures, every apply_adjustments call of closure i is made
\* at frame_index start+i of total_frames N with the values interpolated there,
\* and once all closures have finished every retained file has been opened.
C1_FramesKeepOriginalIndex ==
    Dispatched =>
        /\ DOMAIN task = 0..(RequestedEnd - RequestedStart)
        /\ \A a \in adjusted :
              /\ a.i \in DOMAIN task
              /\ a.img.frame_index = RequestedStart + a.i
              /\ a.img.total_frames = input_count
              /\ a.img.values = get_values_at_frame(adjustments, RequestedStart + a.i,
                                                    input_count)
        /\ AllFinished =>
              opened = {RequestedStart + i : i \in 0..(RequestedEnd - RequestedStart)}

\* scenario C: start=2, end=2 on 5 files has run to its end with one frame,
\* adjusted at index 2 of 5, where the exposure timeline [0.0, 1.0] gives 0.5
C1_Witness ==
    /\ input_count = ScenarioFiles
    /\ start_frame = Some(ScenarioFiles \div 2)
    /\ end_frame = Some(ScenarioFiles \div 2)
    /\ pc = "done"
    /\ Get(exit).ok
    /\ Cardinality(out_files) = 1
    /\ \E a \in adjusted :
          /\ adjusted = {a}
          /\ a.img.frame_index = ScenarioFiles \div 2
          /\ a.img.total_frames = ScenarioFiles
          /\ a.img.values[1] = FDiv(F(ScenarioFiles \div 2), F(ScenarioFiles - 1))

\* the range arguments name a frame past the input, or start after end
BadRange ==
    \/ IsSome(start_frame) /\ IsSome(end_frame) /\ Get(start_frame) > Get(end_frame)
    \/ IsSome(start_frame) /\ Get(start_frame) >= input_count
    \/ IsSome(end_frame) /\ Get(end_frame) >= input_count

\* C2: with start > end, or with start or end at or past the number of
\* discovered files, the run ends in an error, no frame closure is ever
\* created and no frame is loaded, adjusted or written.
C2_BadRangeRejected ==
    BadRange => /\ pc \in {"main", "create_dirs", "discover", "done"}
                /\ ~Dispatched
                /\ NoFrameHandled
                /\ Rejected

\* an end frame equal to the number of files has been rejected by the range
\* check of process_images_to_*, with nothing handled
C2_Witness ==
    /\ input_count > 0
    /\ end_frame = Some(input_count)
    /\ pc = "done"
    /\ Get(exit).msg = "End frame is out of range"
    /\ NoFrameHandled

\* the output paths the closures in tasks write to in image mode
OutputNames(tasks) ==
    {generate_output_filename(image_files[RequestedStart + i + 1], format) : i \in tasks}

\* C3: image mode, at the end of a run that entered the parallel phase: every
\* closure has run to its end (a failure stopped no sibling), the files that
\* failed to open are exactly the corrupt ones, every closure that succeeded
\* has its output file on disk, no other file is there, and the run fails iff
\* some closure failed.
C3_FailureIsolated ==
    (pc = "done" /\ Dispatched /\ ~is_video_output(format)) =>
        /\ AllFinished
        /\ \A i \in DOMAIN task :
              task[i].pc = "err_open" <=> (RequestedStart + i) \in corrupt
        /\ \A i \in OkTasks :
              \E f \in out_files :
                 f.name = generate_output_filename(image_files[RequestedStart + i + 1],
                                                   format)
        /\ Cardinality(out_files) = Cardinality(OutputNames(OkTasks))
        /\ ~Get(exit).ok <=> FailedTasks # {}

\* scenario D: one corrupt file among 5, 4 outputs on disk, the run failed
C3_Witness ==
    /\ pc = "done"
    /\ ~is_video_output(format)
    /\ input_count = ScenarioFiles
    /\ total_files = ScenarioFiles
    /\ Cardinality(corrupt) = 1
    /\ Cardinality(out_files) = ScenarioFiles - 1
    /\ ~Get(exit).ok

\* C4: the error a run returns after its parallel phase carries the error of
\* every frame closure that failed.
C4_AllErrorsReturned ==
    (pc = "done" /\ AllFinished) => Get(exit).frames = FailedTasks

MalformedCrop ==
    IsSome(adjustments.crop) /\ ~parse_crop_string(Get(adjustments.crop)).ok

\* C5: a run with a malformed crop string creates no output or temp
\* directory, opens no input image, writes no frame, and ends in an error.
C5_MalformedCropRejectedFirst ==
    MalformedCrop => NoDirectory /\ NoFrameHandled /\ Rejected

UnsupportedFormat == to_lowercase(format) \notin (ImageFormats \cup VideoFormats)

\* C6: a run with an unsupported output format creates no directory, opens no
\* input image, adjusts no frame, and ends in an error.
C6_UnsupportedFormatRejectedFirst ==
    UnsupportedFormat => NoDirectory /\ NoFrameHandled /\ Rejected

\* v lies in the declared range [min, max]
InRange(v, min, max) == Le(Tenths(min), v) /\ Le(v, Tenths(max))
AllInRange(values, min, max) == \A i \in 1..Len(values) : InRange(values[i], min, max)
OutOfRangeArgs ==
    \/ ~AllInRange(adjustments.exposure, ExposureMin, ExposureMax)
    \/ ~AllInRange(adjustments.brightness, BrightnessMin, BrightnessMax)
    \/ ~AllInRange(adjustments.contrast, ContrastMin, ContrastMax)
    \/ ~AllInRange(adjustments.saturation, SaturationMin, SaturationMax)
    \/ fps \notin FpsMin..FpsMax
    \/ quality > QualityMax

\* C7: a run with a control value outside its declared range, an fps outside
\* 1..120 or a CRF above 51 creates no directory, handles no frame, and ends
\* in an error.
C7_OutOfRangeRejectedFirst ==
    OutOfRangeArgs => NoDirectory /\ NoFrameHandled /\ Rejected

\* C8 as stated: the progress lines carry increasing counts in print order.
C8_ProgressMonotonic ==
    \A j, k \in DOMAIN progress : j < k => progress[j] < progress[k]

\* C8 as amended: the printed counts are pairwise distinct values of the
\* counter, each in 1..total_files and none above the counter's present value.
C8_ProgressDistinct ==
    /\ \A j, k \in DOMAIN progress : j # k => progress[j] # progress[k]
    /\ \A j \in DOMAIN progress : progress[j] \in 1..processed_count
    /\ processed_count <= total_files

\* two closures have printed their counts against the order of the counter
C8_Witness ==
    \E j, k \in DOMAIN progress : j < k /\ progress[j] > progress[k]

\* C9 as stated: once every closure has finished, failed or not, the counter
\* stands at total_files.
C9_CounterReachesTotal ==
    AllFinished => processed_count = total_files

\* C9 as amended: the counter counts the closures that got past save_image;
\* once every closure has finished it equals the number of frames that
\* succeeded, as does the number of progress lines, and it equals total_files
\* exactly when no frame failed.
C9_CounterCountsSuccesses ==
    /\ processed_count = Cardinality({i \in DOMAIN task : task[i].pc \in {"counted", "ok"}})
    /\ AllFinished =>
          /\ processed_count = Cardinality(OkTasks)
          /\ Len(progress) = processed_count
          /\ processed_count = total_files <=> FailedTasks = {}

\* a run has ended with a failed frame and the counter below total_files
C9_Witness ==
    /\ pc = "done"
    /\ AllFinished
    /\ FailedTasks # {}
    /\ processed_count >= 1
    /\ processed_count < total_files

Called(fn) == IsSome(call) /\ Get(call).fn = fn
Arg == Get(call)
Ret == Get(ret)
FMax(a, b) == IF Lt(a, b) THEN b ELSE a
First(values) == values[1]
Last(values) == values[Len(values)]
\* interpolate_value was called at the first, at the last frame of several
AtFirstFrame ==
    /\ Called("interpolate_value")
    /\ Len(Arg.values) >= 2
    /\ Arg.total_frames > 1
    /\ Arg.frame_index = 0
AtLastFrame ==
    /\ Called("interpolate_value")
    /\ Len(Arg.values) >= 2
    /\ Arg.total_frames > 1
    /\ Arg.frame_index = Arg.total_frames - 1

\* C13 as stated: on a timeline of 2 or more control values over n > 1 frames
\* the value at frame 0 is the first control value and the value at frame n-1
\* is the last control value.
C13_EndpointsExact ==
    /\ AtFirstFrame => Ret = First(Arg.values)
    /\ AtLastFrame => Ret = Last(Arg.values)

\* C13 as amended: the value at frame 0 is the first control value; the value
\* at frame n-1 is the last control value on a timeline of 3 or more values,
\* and on a timeline [a, b] it is the f32 sum a + (b - a), which is within
\* 2^-22 * max(|a|, |b|) of b.
C13_EndpointsWithinRounding ==
    /\ AtFirstFrame => Ret = First(Arg.values)
    /\ (AtLastFrame /\ Len(Arg.values) >= 3) => Ret = Last(Arg.values)
    /\ (AtLastFrame /\ Len(Arg.values) = 2) =>
          LET a == Arg.values[1]
              b == Arg.values[2]
          IN  /\ Ret = FAdd(a, FSub(b, a))
              /\ Le(FAbs(FSub(Ret, b)), FMul(Pow2(-22), FMax(FAbs(a), FAbs(b))))

\* the last frame of a timeline [a, b] has a value that is not b
C13_Witness ==
    /\ AtLastFrame
    /\ Len(Arg.values) = 2
    /\ Ret # Last(Arg.values)
    /\ Lt(FAbs(FSub(Ret, Last(Arg.values))), Pow2(-20))

\* C14: interpolate_value(values, 0, 1) is the first control value, whatever
\* the length of the timeline.
C14_SingleFrameIsFirstValue ==
    (Called("interpolate_value") /\ Arg.total_frames = 1) => Ret = First(Arg.values)

\* interpolate_value was called on a timeline [a, b, a] over several frames
OnArch ==
    /\ Called("interpolate_value")
    /\ Len(Arg.values) = 3
    /\ Arg.values[1] = Arg.values[3]
    /\ Arg.total_frames > 1
\* the value at the frame mirrored about the middle of the sequence
Mirrored ==
    interpolate_value(Arg.values, Arg.total_frames - 1 - Arg.frame_index,
                      Arg.total_frames)
\* the frame is the middle one of an odd number of frames
AtMidpoint == 2 * Arg.frame_index = Arg.total_frames - 1
StrictlyBetween(v, a, b) == (Lt(a, v) /\ Lt(v, b)) \/ (Lt(b, v) /\ Lt(v, a))

RECURSIVE number_of(_)
number_of(digits) ==
    IF digits = <<>> THEN 0
    ELSE 10 * number_of(SubSeq(digits, 1, Len(digits) - 1)) + digits[Len(digits)]
\* the number of decimal digits of count >= 1
DigitCount(count) == CHOOSE w \in 1..9 : 10^(w - 1) <= count /\ count < 10^w
\* name is one of the names the pattern frame_%0<N>d.jpg stands for
MatchesPattern(name, N) ==
    /\ name.prefix = "frame_"
    /\ name.ext = "jpg"
    /\ \A j \in DOMAIN name.digits : name.digits[j] \in 0..9
    /\ Len(name.digits) >= N
    /\ Len(name.digits) > N => name.digits[1] # 0

\* C11: the closures of a video run of count frames write frame_<k>.jpg, each
\* to a name of its own, every k padded to the N decimal digits of count and
\* matching frame_%0Nd.jpg with the padding handed to the encoder; once all
\* closures have run the names are those of k = 1..count.
C11_TempFramesNumbered ==
    Called("temp_filename") =>
        LET count == Arg.total_files
            N == DigitCount(count)
        IN  /\ Cardinality(Ret) = Cardinality(Arg.ran)
            /\ \A name \in Ret :
                  /\ Len(name.digits) = N
                  /\ MatchesPattern(name, calculate_frame_padding(count))
            /\ {number_of(name.digits) : name \in Ret} = {i + 1 : i \in Arg.ran}
            /\ Arg.ran = 0..(count - 1) =>
                  {number_of(name.digits) : name \in Ret} = 1..count

\* a run of 10 or more frames has written all its frames, frame_01.jpg among
\* them
C11_Witness ==
    /\ Called("temp_filename")
    /\ Arg.total_files >= 10
    /\ Arg.ran = 0..(Arg.total_files - 1)
    /\ \E name \in Ret : name.digits = <<0, 1>>
    /\ \E name \in Ret : name.digits = <<1, 0>>

\* C12: in image mode no two closures of a run write the same path, and a run
\* whose k closures all succeeded leaves k output files.
C12_OneOutputPerFrame ==
    (Dispatched /\ ~is_video_output(format)) =>
        /\ \A i, j \in DOMAIN task :
              i # j => OutputNames({i}) # OutputNames({j})
        /\ (pc = "done" /\ OkTasks = DOMAIN task) =>
              Cardinality(out_files) = total_files

\* apply_adjustments was called with a crop string that parses
Cropped ==
    /\ Called("apply_adjustments")
    /\ IsSome(Arg.adjustments.crop)
    /\ parse_crop_string(Get(Arg.adjustments.crop)).ok
\* the fields of that crop string
CropField(j) == Get(Arg.adjustments.crop)[j]
\* percent of dim, a whole number for the sizes and percentages of the model
PercentOf(percent, dim) == (percent * dim) \div 100

\* C16: a crop field is a percentage of its dimension exactly when it carries
\* the % suffix: a bare width or height of n > 0 is n pixels (cut at the image
\* edge), an x or y of p% is p percent of the width or height.
C16_PercentIffSuffix ==
    (Cropped /\ ~Ret.img.overflow) =>
        LET rect == Ret.img.rect
        IN  /\ (~CropField(1).pct /\ CropField(1).n > 0) =>
                  Ret.img.width = Min(CropField(1).n, Arg.img.width - rect[1])
            /\ (~CropField(2).pct /\ CropField(2).n > 0) =>
                  Ret.img.height = Min(CropField(2).n, Arg.img.height - rect[2])
            /\ CropField(3).pct => rect[1] = PercentOf(CropField(3).n, Arg.img.width)
            /\ CropField(4).pct => rect[2] = PercentOf(CropField(4).n, Arg.img.height)

\* the crop string that spells a rectangle in pixels, width:height:x:y
PixelDescriptor(rect) ==
    Some(<<Px(rect[3] - rect[1]), Px(rect[4] - rect[2]), Px(rect[1]), Px(rect[2])>>)

\* C17: the rectangle a crop string resolves to on an image, written as a
\* crop string in pixels, resolves to the same rectangle on that image.
C17_CropIdempotent ==
    (Cropped /\ ~Ret.img.overflow) =>
        crop_rect(PixelDescriptor(Ret.img.rect), Arg.img.width, Arg.img.height)
            = Ret.img.rect

\* C18: for every crop string that parses and every image size the rectangle
\* has start_x <= end_x <= width and start_y <= end_y <= height, and neither
\* end_x - start_x nor end_y - start_y underflows.
C18_RectWithinImage ==
    Cropped =>
        LET rect == Ret.img.rect
        IN  /\ rect[1] <= rect[3]
            /\ rect[3] <= Arg.img.width
            /\ rect[2] <= rect[4]
            /\ rect[4] <= Arg.img.height
            /\ ~Ret.img.overflow

\* apply_adjustments was called with "50%:50%:0:0" on a 200x100 image
ScenarioB ==
    /\ Called("apply_adjustments")
    /\ Arg.adjustments.crop = Some(<<Pct(50), Pct(50), Px(0), Px(0)>>)
    /\ Arg.img.width = 200
    /\ Arg.img.height = 100

\* C19: "50%:50%:0:0" on a 200x100 image gives the rectangle of 100x50 pixels
\* at (0, 0), and the image apply_adjustments returns is 100x50.
C19_HalfCropOf200x100 ==
    ScenarioB =>
        /\ Ret.img.ok
        /\ Ret.img.rect = <<0, 0, 100, 50>>
        /\ Ret.img.width = 100
        /\ Ret.img.height = 50

C19_Witness ==
    /\ ScenarioB
    /\ Ret.img.ok
    /\ ~Ret.img.overflow
    /\ Ret.img.width = 100

\* apply_adjustments was called with exposure 0, brightness 0, contrast 1,
\* saturation 1 and no crop
NoOpCall ==
    /\ Called("apply_adjustments")
    /\ Arg.adjustments.crop = None
    /\ Arg.adjustments.exposure = <<F(0)>>
    /\ Arg.adjustments.brightness = <<F(0)>>
    /\ Arg.adjustments.contrast = <<F(1)>>
    /\ Arg.adjustments.saturation = <<F(1)>>

\* C20: with exposure 0, brightness 0, contrast 1, saturation 1 and no crop the
\* image returned has the size of the input and every channel of the pixel has
\* the value it had, whatever that value in 0..255.
C20_NominalIsNoOp ==
    NoOpCall =>
        /\ Ret.img.ok
        /\ Ret.img.width = Arg.img.width
        /\ Ret.img.height = Arg.img.height
        /\ Ret.pixel = Arg.img.pixel

\* the no-op call on a pixel whose channels are of no f32 an exact multiple
\* of 1/255, and on a coloured pixel
C20_Witness ==
    /\ NoOpCall
    /\ Arg.img.pixel \in {<<254, 254, 254>>, <<10, 200, 30>>}
    /\ Ret.pixel = Arg.img.pixel

Even(k) == k % 2 = 0

\* C21: whenever a target resolution is requested the resolution planning
\* returns a resolution, and its width and height are both even, for every
\* first frame, target and crop.
C21_PlannedResolutionEven ==
    Called("plan_resolution") =>
        /\ ~Ret.panic
        /\ IsSome(Ret.resolution)
        /\ Even(Get(Ret.resolution)[1])
        /\ Even(Get(Ret.resolution)[2])

\* the relative difference of the target's aspect ratio from the first
\* frame's, |tw/th - w/h| / (w/h), is above 5%: in whole numbers
RelativeMismatch ==
    Abs(Arg.target.w * Arg.height - Arg.width * Arg.target.h) * 20
        > Arg.width * Arg.target.h

\* C22: the planning that returns has printed the aspect-ratio warning exactly
\* when the target's ratio differs from the first frame's by more than 5% of
\* the first frame's ratio.
C22_WarningIffRelativeMismatch ==
    (Called("plan_resolution") /\ ~Ret.panic) => (Ret.warning <=> RelativeMismatch)

\* the file closure i reads
FileOf(i) == image_files[RequestedStart + i + 1]
IsRaw(path) == to_lowercase(path.ext) \in RawExtensions

\* C23: no frame whose file has a RAW extension ends in the error of a failed
\* open: the RAW decoder is tried after the standard decoder has rejected the
\* file (the RAW files of the model are files a RAW sensor decoder reads).
C23_RawFileNotAnOpenError ==
    \A i \in DOMAIN task : task[i].pc = "err_open" => ~IsRaw(FileOf(i))

\* the closures that have done their fetch_add
Incremented == {i \in DOMAIN task : task[i].pc \in {"counted", "ok"}}
\* the closures that hold the value their fetch_add gave them, not yet printed
Holding == {i \in DOMAIN task : task[i].pc = "counted"}
\* the values the fetch_adds have given: those held and those printed
Obtained == {task[i].current : i \in Holding} \cup {progress[j] : j \in DOMAIN progress}

\* C24: under every interleaving of the closures the values their fetch_adds
\* obtain are pairwise distinct and are exactly 1..k, k the number of closures
\* that have incremented; the counter is k, also once all closures have joined.
C24_IncrementsNeitherLostNorDuplicated ==
    /\ \A i, j \in Holding : i # j => task[i].current # task[j].current
    /\ \A i \in Holding, j \in DOMAIN progress : task[i].current # progress[j]
    /\ \A j, k \in DOMAIN progress : j # k => progress[j] # progress[k]
    /\ Cardinality(Holding) + Len(progress) = Cardinality(Incremented)
    /\ Obtained = 1..Cardinality(Incremented)
    /\ processed_count = Cardinality(Incremented)

\* two closures hold their counts at once, the later frame having incremented
\* first, while a third closure has failed and never incremented
C24_Witness ==
    /\ \E i, j \in Holding : i < j /\ task[i].current > task[j].current
    /\ FailedTasks # {}

\* the encoder call has been reached: ffmpeg is about to be or has been started
EncoderReached == pc = "ffmpeg" \/ encoder # "none"

\* C25: video mode: the encoder is reached only once every frame closure of
\* the run has finished and none of them has failed; while some closure has
\* failed the encoder has not been started and the run has made no video file.
C25_EncoderBehindBarrier ==
    /\ EncoderReached =>
          /\ is_video_output(format)
          /\ AllFinished
          /\ FailedTasks = {}
          /\ Cardinality(temp_files) = total_files \/ encoder = "exit_success"
    /\ (is_video_output(format) /\ FailedTasks # {}) =>
          /\ ~EncoderReached
          /\ video_file = None

\* a video run has ended on a failed frame, its other frames written to
\* temp_frames, without the encoder
C25_Witness ==
    /\ is_video_output(format)
    /\ pc = "done"
    /\ FailedTasks # {}
    /\ OkTasks # {}
    /\ temp_files # {}
    /\ encoder = "none"
    /\ video_file = None

\* 255 * clamp(v, 0, 1) rounded to the nearest integer, halves away from zero
round_u8(v) == Min(AsU32(FAdd(FMul(clamp(v, F(0), F(1)), F(255)), FDiv(F(1), F(2)))), 255)

\* C26: every channel apply_adjustments puts is round(255 * clamp(v, 0, 1)) of
\* the adjusted channel value v, not its truncation.
C26_LastStepRounds ==
    Called("apply_adjustments") =>
        \A c \in 1..3 :
           Ret.pixel[c] = round_u8(adjusted_channels(Arg.img.pixel, Ret.img.values)[c])

\* x + y on limbs
RECURSIVE add_limbs(_, _, _, _)
add_limbs(x, y, j, carry) ==
    IF j > Len(x) THEN <<>>
    ELSE <<(x[j] + y[j] + carry) % Limb>>
         \o add_limbs(x, y, j + 1, (x[j] + y[j] + carry) \div Limb)

\* the row after row p of Pascal's triangle, from its entry j on
RECURSIVE next_row(_, _)
next_row(p, j) ==
    IF j > Len(p) + 1 THEN <<>>
    ELSE <<IF j = 1 \/ j = Len(p) + 1 THEN usize(1) ELSE add_limbs(p[j - 1], p[j], 1, 0)>>
         \o next_row(p, j + 1)

\* row n of Pascal's triangle, reached from the row p
RECURSIVE pascal_from(_, _)
pascal_from(p, n) == IF Len(p) > n THEN p ELSE pascal_from(next_row(p, 1), n)

pascal_row(n) == pascal_from(<<usize(1)>>, n)

\* C(n, k) by Pascal's rule
Choose(n, k) == IF k > n THEN usize(0) ELSE pascal_row(n)[k + 1]

\* C27: binomial_coefficient(n, k) returns C(n, k) for 0 <= k <= n and 0 for
\* k > n, and every division of its loop is exact.
C27_BinomialExact ==
    Called("binomial_coefficient") =>
        /\ ~Ret.panic
        /\ Ret.exact
        /\ Ret.value = Choose(Arg.n, Arg.k)

\* the same for n <= 62, the timelines of up to 63 control values
C27_BinomialExactUpTo62 ==
    (Called("binomial_coefficient") /\ Arg.n <= 62) =>
        /\ ~Ret.panic
        /\ Ret.exact
        /\ Ret.value = Choose(Arg.n, Arg.k)

\* the names of the frames the closures of this run write
RunFrames == {temp_filename(i, calculate_frame_padding(total_files)) : i \in DOMAIN task}

\* C28: the frames the encoder is handed are exactly the frames this run has
\* written, whatever an earlier run over the same output directory left in
\* temp_frames.
C28_EncoderReadsThisRun ==
    /\ pc = "ffmpeg" =>
          encoder_input(temp_frames, calculate_frame_padding(total_files)) = RunFrames
    /\ IsSome(video_file) => Get(video_file).frames = RunFrames

\* the nominal adjustments under the crop string crop
NominalCropped(crop) ==
    [exposure |-> <<Tenths(0)>>, brightness |-> <<Tenths(0)>>, contrast |-> <<Tenths(10)>>,
     saturation |-> <<Tenths(10)>>, crop |-> crop]

\* the size of the image apply_adjustments returns for a frame of that size
applied_size(img) == <<img.width, img.height>>

\* C29: for a first frame and a crop string, the cropped width and height the
\* resolution planning of video mode computes are the width and height of the
\* image apply_adjustments returns for that frame.
C29_PlannedCropIsAppliedCrop ==
    (Called("plan_resolution") /\ IsSome(Arg.crop)) =>
        planned_crop_size(parse_crop_string(Get(Arg.crop)), Arg.width, Arg.height)
        = applied_size(apply_adjustments([width |-> Arg.width, height |-> Arg.height],
                                         NominalCropped(Arg.crop), 0, 1))

\* the least and the greatest of the control values
RECURSIVE MinOf(_)
MinOf(values) ==
    IF Len(values) = 1 THEN values[1]
    ELSE IF Lt(values[1], MinOf(Tail(values))) THEN values[1] ELSE MinOf(Tail(values))
RECURSIVE MaxOf(_)
MaxOf(values) ==
    IF Len(values) = 1 THEN values[1]
    ELSE IF Gt(values[1], MaxOf(Tail(values))) THEN values[1] ELSE MaxOf(Tail(values))

\* interpolate_value was called over n > 1 frames
OverSeveralFrames == Called("interpolate_value") /\ Arg.total_frames > 1

RECURSIVE MaxAbsOf(_)
MaxAbsOf(values) ==
    IF Len(values) = 1 THEN FAbs(values[1])
    ELSE FMax(FAbs(values[1]), MaxAbsOf(Tail(values)))
Slack(values) == FMul(Pow2(-22), MaxAbsOf(values))

====
